---- MODULE Spec2Model ----
(***************************************************************************)
(* A model of term_fixer.py (product-name-normalizer): the dictionary file *)
(* and its temporary sibling, the per-process lru_cache of compiled rules, *)
(* and the two public operations fix_terms and add_term.                   *)
(*                                                                         *)
(* A Python str is a sequence of one-character strings, so that strip,     *)
(* casefold, the \b word boundaries of the compiled patterns, re.sub and   *)
(* the tag split are computed character by character as the code does.     *)
(***************************************************************************)
EXTENDS Integers, Sequences, FiniteSets, TLC

(***************************************************************************)
(* Characters.  Alphabet lists the characters of the model in code-point   *)
(* order; Code gives a character's rank in it (the order of str < str).    *)
(***************************************************************************)
Alphabet ==
    <<" ","\"","-",".","/",":","<","=",">",
      "A","B","C","D","E","F","G","H","I","J","K","L","M",
      "N","O","P","Q","R","S","T","U","V","W","X","Y","Z",
      "_",
      "a","b","c","d","e","f","g","h","i","j","k","l","m",
      "n","o","p","q","r","s","t","u","v","w","x","y","z">>

Chars == {Alphabet[i] : i \in DOMAIN Alphabet}

Code == [c \in Chars |-> CHOOSE i \in DOMAIN Alphabet : Alphabet[i] = c]

UpperChars == {"A","B","C","D","E","F","G","H","I","J","K","L","M",
               "N","O","P","Q","R","S","T","U","V","W","X","Y","Z"}

\* str.casefold / re.IGNORECASE on one ASCII character: "a" is 32 code points
\* after "A", 27 places after it in Alphabet
LowerChar == [c \in Chars |-> IF c \in UpperChars THEN Alphabet[Code[c] + 27] ELSE c]

\* \w of the re module: letters, digits, underscore
IsWordChar(c) == c \notin {" ", "\"", "-", ".", "/", ":", "<", "=", ">"}

\* str.isspace on the characters of the model
IsSpace(c) == c = " "

casefold(s) == [i \in DOMAIN s |-> LowerChar[s[i]]]

RECURSIVE lstrip(_)
lstrip(s) == IF s # <<>> /\ IsSpace(Head(s)) THEN lstrip(Tail(s)) ELSE s

RECURSIVE rstrip(_)
rstrip(s) ==
    IF s # <<>> /\ IsSpace(s[Len(s)]) THEN rstrip(SubSeq(s, 1, Len(s) - 1)) ELSE s

\* str.strip()
strip(s) == rstrip(lstrip(s))

\* s < t for two str, by code point
RECURSIVE StrLess(_, _)
StrLess(s, t) ==
    IF t = <<>> THEN FALSE
    ELSE IF s = <<>> THEN TRUE
    ELSE IF Head(s) # Head(t) THEN Code[Head(s)] < Code[Head(t)]
    ELSE StrLess(Tail(s), Tail(t))

(***************************************************************************)
(* DEFAULT_TERMS, in declaration order.  A TermMap (a Python dict) is a    *)
(* sequence of entries [k |-> key, v |-> variants] in iteration order.     *)
(***************************************************************************)
DEFAULT_TERMS ==
    <<
       [k |-> <<"C","l","a","u","d","e"," ","C","o","d","e">>,
        v |-> <<<<"C","l","o","u","d","c","o","d","e">>,
                <<"C","l","o","u","d"," ","C","o","d","e">>,
                <<"C","l","a","u","d","e","C","o","d","e">>>>],
       [k |-> <<"A","n","t","i","g","r","a","v","i","t","y">>,
        v |-> <<<<"A","n","t","y","g","r","a","v","i","t","y">>,
                <<"A","n","t","i","G","r","a","v","i","t","y">>,
                <<"A","n","t","i","-","g","r","a","v","i","t","y">>>>],
       [k |-> <<"W","i","s","p","r"," ","F","l","o","w">>,
        v |-> <<<<"W","i","s","p","r","f","l","o","w">>,
                <<"W","i","s","p","r","F","l","o","w">>,
                <<"W","h","i","s","p","r"," ","F","l","o","w">>>>],
       [k |-> <<"C","u","r","s","o","r">>,
        v |-> <<<<"C","u","r","s","e","r">>>>],
       [k |-> <<"W","i","n","d","s","u","r","f">>,
        v |-> <<<<"W","i","n","d","S","u","r","f">>,
                <<"W","i","n","d"," ","S","u","r","f">>>>],
       [k |-> <<"F","i","r","e","c","r","a","w","l">>,
        v |-> <<<<"F","i","r","e"," ","C","r","a","w","l">>,
                <<"F","i","r","e","C","r","a","w","l">>>>],
       [k |-> <<"S","n","o","w","f","l","a","k","e">>,
        v |-> <<<<"S","n","o","w","F","l","a","k","e">>>>],
       [k |-> <<"L","o","v","a","b","l","e">>,
        v |-> <<<<"L","o","v","e","a","b","l","e">>>>],
       [k |-> <<"R","e","p","l","i","t">>,
        v |-> <<<<"R","e","p","l",".","i","t">>>>]
    >>

(***************************************************************************)
(* _dedup_preserve_order: keep the first of every casefold-equal group.    *)
(***************************************************************************)
\* a dedup that compares the items as they are written
RECURSIVE DedupExactFrom(_, _, _)
DedupExactFrom(items, seen, out) ==
    IF items = <<>> THEN out
    ELSE IF Head(items) \in seen THEN DedupExactFrom(Tail(items), seen, out)
    ELSE DedupExactFrom(Tail(items), seen \cup {Head(items)}, Append(out, Head(items)))

dedup_case_sensitive(items) == DedupExactFrom(items, {}, <<>>)

RECURSIVE DedupFrom(_, _, _)
DedupFrom(items, seen, out) ==
    IF items = <<>> THEN out
    ELSE LET x == Head(items)
             key == casefold(x)
         IN IF key \in seen
            THEN DedupFrom(Tail(items), seen, out)
            ELSE DedupFrom(Tail(items), seen \cup {key}, Append(out, x))

dedup_preserve_order(items) == DedupFrom(items, {}, <<>>)

(***************************************************************************)
(* _compile_rules.  A rule is [lit, repl, len]: the pattern                *)
(* \b re.escape(lit) \b with IGNORECASE, the replacement, the priority.    *)
(***************************************************************************)
RECURSIVE RulesOfVariants(_, _)
RulesOfVariants(correct, variants) ==
    IF variants = <<>> THEN <<>>
    ELSE LET vv == strip(Head(variants))
             rest == RulesOfVariants(correct, Tail(variants))
         IN IF vv = <<>> THEN rest
            ELSE <<[lit |-> vv, repl |-> correct, len |-> Len(vv)]>> \o rest

\* rules for the variants only, without the canonical term itself
RulesOfTerm_variants_only(e) ==
    IF strip(e.k) = <<>> THEN <<>>
    ELSE RulesOfVariants(e.k, dedup_preserve_order(e.v))

RulesOfTerm(e) ==
    IF strip(e.k) = <<>> THEN <<>>
    ELSE RulesOfVariants(e.k, dedup_preserve_order(<<e.k>> \o e.v))

RECURSIVE RulesOfTerms(_)
RulesOfTerms(terms) ==
    IF terms = <<>> THEN <<>>
    ELSE RulesOfTerm(Head(terms)) \o RulesOfTerms(Tail(terms))

\* list.sort(key=len, reverse=True): stable, so r goes after every rule at
\* least as long as it.
RECURSIVE InsertByLen(_, _)
InsertByLen(sorted, r) ==
    IF sorted = <<>> THEN <<r>>
    ELSE IF Head(sorted).len >= r.len
         THEN <<Head(sorted)>> \o InsertByLen(Tail(sorted), r)
         ELSE <<r>> \o sorted

\* no sort: the rules stay in dictionary order
KeepOrder(rules, sorted) == rules

RECURSIVE SortLongestFirst(_, _)
SortLongestFirst(rules, sorted) ==
    IF rules = <<>> THEN sorted
    ELSE SortLongestFirst(Tail(rules), InsertByLen(sorted, Head(rules)))

compile_rules(terms) == SortLongestFirst(RulesOfTerms(terms), <<>>)

\* the tuple returned by _compiled_rules_for: (pat, repl) without the length
DropLen(rules) == [i \in DOMAIN rules |-> [lit |-> rules[i].lit, repl |-> rules[i].repl]]

(***************************************************************************)
(* pat.sub(repl, text) for pat = \b lit \b, IGNORECASE.                     *)
(***************************************************************************)
WordAt(text, i) == i >= 1 /\ i <= Len(text) /\ IsWordChar(text[i])

\* \b between text[p] and text[p+1]
Boundary(text, p) == WordAt(text, p) # WordAt(text, p + 1)

MatchAt(lit, text, i) ==
    /\ i + Len(lit) - 1 <= Len(text)
    /\ Boundary(text, i - 1)
    /\ Boundary(text, i + Len(lit) - 1)
    /\ \A k \in 1..Len(lit) : LowerChar[text[i + k - 1]] = LowerChar[lit[k]]

RECURSIVE SubFrom(_, _, _, _)
SubFrom(lit, repl, text, i) ==
    IF i > Len(text) THEN <<>>
    ELSE IF MatchAt(lit, text, i)
         THEN repl \o SubFrom(lit, repl, text, i + Len(lit))
         ELSE <<text[i]>> \o SubFrom(lit, repl, text, i + 1)

sub(rule, text) == SubFrom(rule.lit, rule.repl, text, 1)

RECURSIVE ApplyRules(_, _)
ApplyRules(rules, part) ==
    IF rules = <<>> THEN part
    ELSE ApplyRules(Tail(rules), sub(Head(rules), part))

(***************************************************************************)
(* _TAG_SPLIT_RE.split(text) for (<[^>]+>): the parts alternate plain,     *)
(* tag, plain, ..., plain; a plain part may be empty.                      *)
(***************************************************************************)
\* the index of the '>' closing a tag opened at i, or 0 when no tag starts at i
RECURSIVE FirstCloser(_, _)
FirstCloser(text, j) ==
    IF j > Len(text) THEN 0
    ELSE IF text[j] = ">" THEN j
    ELSE FirstCloser(text, j + 1)

TagEnd(text, i) ==
    IF text[i] # "<" \/ i + 1 > Len(text) \/ text[i + 1] = ">" THEN 0
    ELSE FirstCloser(text, i + 2)

RECURSIVE SplitFrom(_, _, _)
SplitFrom(text, start, i) ==
    IF i > Len(text) THEN <<SubSeq(text, start, Len(text))>>
    ELSE LET j == TagEnd(text, i)
         IN IF TagEnd(text, i) = 0 THEN SplitFrom(text, start, i + 1)
            ELSE <<SubSeq(text, start, i - 1), SubSeq(text, i, j)>>
                     \o SplitFrom(text, j + 1, j + 1)

TAG_SPLIT(text) == SplitFrom(text, 1, 1)

RECURSIVE Join(_)
Join(parts) == IF parts = <<>> THEN <<>> ELSE Head(parts) \o Join(Tail(parts))

\* a test that lets every non-empty part through to the rules
SkipEmptyOnly(part) == part = <<>>

\* the test of line 132: an empty part, or one that looks like a tag, is kept
SkipPart(part) == part = <<>> \/ (part[1] = "<" /\ part[Len(part)] = ">")

\* lines 130-139 of fix_terms: split, substitute in the text parts, join
FixPart(rules, part) == IF SkipPart(part) THEN part ELSE ApplyRules(rules, part)

FixEach(rules, parts) == Join([i \in DOMAIN parts |-> FixPart(rules, parts[i])])

FixParts(rules, text) == FixEach(rules, TAG_SPLIT(text))

(***************************************************************************)
(* The file system.  A file is an inode: the dictionary path and its       *)
(* sibling path.with_suffix(suffix + ".tmp") each name an inode (0: no     *)
(* such file), and an open file descriptor keeps naming its inode after    *)
(* os.replace has moved it.  An inode's data is the parsed JSON value:     *)
(* kind "object" with its entries [k, v, ok] in file order (ok: the value  *)
(* is a list of strings), or kind "other" for any other JSON value.  The   *)
(* stage is "empty" after open(..., "w") has created or truncated the      *)
(* file, "full" once one complete serialization is in it, "mixed" when a   *)
(* shorter serialization was written over a longer one.  origin and        *)
(* touched are history: who produced the content, and the keys add_term    *)
(* merged into since.                                                      *)
(***************************************************************************)
Procs == {1, 2}

NoData == [kind |-> "none", entries |-> <<>>, origin |-> "none", touched |-> {}]

Content(entries, origin, touched) ==
    [kind |-> "object", entries |-> entries, origin |-> origin, touched |-> touched]

NotObject == [kind |-> "other", entries |-> <<>>, origin |-> "external", touched |-> {}]

\* sorted(d.items()) of json.dumps(..., sort_keys=True)
RECURSIVE InsertByKey(_, _)
InsertByKey(sorted, e) ==
    IF sorted = <<>> THEN <<e>>
    ELSE IF StrLess(e.k, Head(sorted).k)
         THEN <<e>> \o sorted
         ELSE <<Head(sorted)>> \o InsertByKey(Tail(sorted), e)

RECURSIVE SortByKey(_, _)
SortByKey(entries, sorted) ==
    IF entries = <<>> THEN sorted
    ELSE SortByKey(Tail(entries), InsertByKey(sorted, Head(entries)))

\* json.dumps(obj, ensure_ascii=False, indent=2, sort_keys=True) of a TermMap,
\* as the JSON value a reader parses back
dumps(terms) ==
    SortByKey([i \in DOMAIN terms |-> [k |-> terms[i].k, v |-> terms[i].v, ok |-> TRUE]],
              <<>>)

\* the length of that text plus the trailing "\n" (indent=2; no character of
\* the model needs a JSON escape)
RECURSIVE SumLen(_)
SumLen(strs) == IF strs = <<>> THEN 0 ELSE Len(Head(strs)) + 6 + SumLen(Tail(strs))

ValueLen(v) == IF v = <<>> THEN 2 ELSE 5 + SumLen(v) + 2 * Len(v) - 1

RECURSIVE EntriesLen(_)
EntriesLen(entries) ==
    IF entries = <<>> THEN 0
    ELSE 6 + Len(Head(entries).k) + ValueLen(Head(entries).v) + 2 + EntriesLen(Tail(entries))

TextLen(data) ==
    IF data.kind # "object" THEN 3
    ELSE IF data.entries = <<>> THEN 3
    ELSE 2 + EntriesLen(data.entries) - 2 + 3

\* a read that leaves out the keys whose value is not a list of strings
load_entries_dropping(entries) ==
    LET IsOk(e) == e.ok
        kept == SelectSeq(entries, IsOk)
    IN [i \in DOMAIN kept |-> [k |-> kept[i].k, v |-> kept[i].v]]

\* lines 61-70 of _load_terms: the permissive read of the parsed object
load_entries(entries) ==
    [i \in DOMAIN entries |->
        [k |-> entries[i].k, v |-> IF entries[i].ok THEN entries[i].v ELSE <<>>]]

(***************************************************************************)
(* State.                                                                  *)
(*   fs     the directory, the two paths and the inodes                    *)
(*   clock  the newest st_mtime_ns handed out: every creation, truncation  *)
(*          and write stamps its inode with a newer one                    *)
(*   cache  per process, the lru_cache of _compiled_rules_for: entries     *)
(*          [ver, rules], least recently used first (the path is the one   *)
(*          configured location, so the key is the mtime)                  *)
(*   pc     per process, the place in the call it is running ("idle":      *)
(*          between calls)                                                 *)
(*   loc    per process, the locals of the running call                    *)
(*   last   per process, its last completed call and what it returned:     *)
(*          chained when its text is what the fix_terms call before it     *)
(*          returned, fresh when it found no file, afterAdd (with prevKey  *)
(*          and prevVariants) when the call before it was an add_term that *)
(*          returned "ok", failed once a call of the process has raised    *)
(*          the error of a file that is no JSON object, loaded the         *)
(*          dictionary the call read, dels how many times (up to 2) the    *)
(*          file was removed during the call, gone when the first stat     *)
(*          of fix_terms found no file; a step of the environment leaves   *)
(*          NoCall (and failed)                                            *)
(*   actor  who took the last step: a process, or 0 for the environment    *)
(***************************************************************************)
VARIABLES fs, clock, cache, pc, loc, last, actor

vars == <<fs, clock, cache, pc, loc, last, actor>>

CacheMaxSize == 16

NoStr == <<>>

IdleLoc ==
    [op |-> "none", text |-> NoStr, correct |-> NoStr, variants |-> <<>>,
     stack |-> <<>>, data |-> NoData, fd |-> 0, mtime |-> 0, raw |-> NoData,
     rules |-> <<>>, hit |-> FALSE, fresh |-> FALSE,
     statData |-> NoData, dels |-> 0, gone |-> FALSE]

NoCall ==
    [op |-> "none", text |-> NoStr, correct |-> NoStr, variants |-> <<>>,
     result |-> "none", out |-> NoStr, rules |-> <<>>, mtime |-> 0,
     hit |-> FALSE, key |-> NoStr, chained |-> FALSE, fresh |-> FALSE,
     afterAdd |-> FALSE, prevKey |-> NoStr, prevVariants |-> <<>>, failed |-> FALSE,
     loaded |-> NoData, dels |-> 0, gone |-> FALSE]

World ==
    [fs |-> fs, clock |-> clock, cache |-> cache, pc |-> pc, loc |-> loc,
     last |-> last]

\* inodes nothing names any more are gone
Collect(w) ==
    LET live == ({w.fs.path, w.fs.tmp} \cup {w.loc[p].fd : p \in Procs}) \ {0}
    IN [w EXCEPT !.fs.inodes = [i \in live |-> w.fs.inodes[i]]]

Assign(c, p) ==
    /\ fs' = c.fs
    /\ clock' = c.clock
    /\ cache' = c.cache
    /\ pc' = c.pc
    /\ loc' = c.loc
    /\ last' = c.last
    /\ actor' = p

SetWorld(w, p) == Assign(Collect(w), p)

Goto(w, p, label) == [w EXCEPT !.pc[p] = label]

Push(w, p, ret) == [w EXCEPT !.loc[p].stack = <<ret>> \o @]

Return(w, p) ==
    [w EXCEPT !.pc[p] = Head(w.loc[p].stack), !.loc[p].stack = Tail(@)]

\* the call ends: it returns `out` (result "ok") or raises `result`
Finish(w, p, result, out, rules, key) ==
    LET l == w.loc[p]
    IN [w EXCEPT !.pc[p] = "idle",
                 !.loc[p] = IdleLoc,
                 !.last[p] = [op |-> l.op, text |-> l.text, correct |-> l.correct,
                              variants |-> l.variants, result |-> result,
                              out |-> out, rules |-> rules, mtime |-> l.mtime,
                              hit |-> l.hit, key |-> key,
                              chained |-> /\ l.op = "fix_terms"
                                          /\ w.last[p].op = "fix_terms"
                                          /\ w.last[p].result = "ok"
                                          /\ l.text = w.last[p].out,
                              fresh |-> l.fresh,
                              afterAdd |-> /\ w.last[p].op = "add_term"
                                           /\ w.last[p].result = "ok",
                              prevKey |-> w.last[p].key,
                              prevVariants |-> w.last[p].variants,
                              failed |-> \/ w.last[p].failed
                                         \/ result = "ValueError: not an object",
                              loaded |-> l.raw,
                              dels |-> l.dels,
                              gone |-> l.gone]]

Raise(w, p, error) == Finish(w, p, error, NoStr, <<>>, NoStr)

(***************************************************************************)
(* _ensure_terms_file and _atomic_write_json, one system call a step.      *)
(***************************************************************************)
\* an _ensure_terms_file that creates nothing
ensure_without_writing(w, p) == Return(w, p)

\* line 50: path.exists(); line 52 writes the defaults when it is false
ensure_terms_file(w, p) ==
    IF w.fs.path # 0 THEN Return(w, p)
    ELSE Goto([w EXCEPT !.loc[p].data = Content(dumps(DEFAULT_TERMS), "defaults", {})],
              p, "write_mkdir")

\* line 43: path.parent.mkdir(parents=True, exist_ok=True)
write_mkdir(w, p) == Goto([w EXCEPT !.fs.dir = TRUE], p, "write_open")

FreshInode(w) == CHOOSE i \in 1..(Cardinality(DOMAIN w.fs.inodes) + 1) :
                    i \notin DOMAIN w.fs.inodes

\* line 45, tmp.write_text: open(tmp, "w") creates the file or truncates it
write_open(w, p) ==
    LET i == IF w.fs.tmp # 0 THEN w.fs.tmp ELSE FreshInode(w)
        empty == [data |-> NoData, stage |-> "empty", mtime |-> w.clock + 1]
    IN IF ~w.fs.dir THEN Raise(w, p, "FileNotFoundError")
       ELSE
       Goto([w EXCEPT !.fs.tmp = i,
                      !.fs.inodes = [j \in DOMAIN @ \cup {i} |->
                                        IF j = i THEN empty ELSE @[j]],
                      !.clock = @ + 1,
                      !.loc[p].fd = i],
            p, "write_data")

\* line 45, tmp.write_text: the text is written from offset 0 through the
\* descriptor and the file is closed; what an earlier writer of the same inode
\* left beyond the end of this text stays
write_data(w, p) ==
    LET i == w.loc[p].fd
        old == w.fs.inodes[i]
        new == w.loc[p].data
        covers == old.stage = "empty" \/ TextLen(new) >= TextLen(old.data)
    IN Goto([w EXCEPT !.fs.inodes[i] =
                          [data |-> IF covers THEN new ELSE old.data,
                           stage |-> IF covers THEN "full" ELSE "mixed",
                           mtime |-> w.clock + 1],
                      !.clock = @ + 1,
                      !.loc[p].fd = 0],
            p, "write_replace")

\* line 46: os.replace(tmp, path)
write_replace(w, p) ==
    IF w.fs.tmp = 0 THEN Raise(w, p, "FileNotFoundError")
    ELSE Return([w EXCEPT !.fs.path = w.fs.tmp, !.fs.tmp = 0], p)

(***************************************************************************)
(* _load_terms and _compiled_rules_for.                                    *)
(***************************************************************************)
\* line 56: _load_terms starts with _ensure_terms_file; `ret` is where the
\* caller goes on with the loaded terms
load_terms(w, p, ret) == Goto(Push(Push(w, p, ret), p, "load_read"), p, "ensure")

\* a _load_terms without the isinstance check of line 58
load_read_unchecked(w, p) ==
    IF w.fs.path = 0 THEN Raise(w, p, "FileNotFoundError")
    ELSE LET f == w.fs.inodes[w.fs.path]
         IN IF f.stage # "full" THEN Raise(w, p, "JSONDecodeError")
            ELSE Return([w EXCEPT !.loc[p].raw = f.data], p)

\* lines 57-59: read_text, json.loads, the isinstance check
load_read(w, p) ==
    IF w.fs.path = 0 THEN Raise(w, p, "FileNotFoundError")
    ELSE LET f == w.fs.inodes[w.fs.path]
         IN IF f.stage # "full" THEN Raise(w, p, "JSONDecodeError")
            ELSE IF f.data.kind # "object" THEN Raise(w, p, "ValueError: not an object")
            ELSE Return([w EXCEPT !.loc[p].raw = f.data], p)

CacheIndex(c, ver) == {i \in DOMAIN c : c[i].ver = ver}

RemoveAt(c, i) == SubSeq(c, 1, i - 1) \o SubSeq(c, i + 1, Len(c))

\* lru_cache(maxsize=16): a new entry is the most recently used; the least
\* recently used one goes when the cache is full
CachePut(c, ver, rules) ==
    LET d == Append(c, [ver |-> ver, rules |-> rules])
    IN IF Len(d) > CacheMaxSize THEN Tail(d) ELSE d

\* a cache key without the version
CacheKeyIgnoringVersion(ver) == 0

\* the key of the cache lookup of line 127
CacheKey(ver) == ver

\* line 127: the call of _compiled_rules_for, a hit of the lru_cache or a miss
compiled_rules_for(w, p) ==
    LET c == w.cache[p]
        hits == CacheIndex(c, CacheKey(w.loc[p].mtime))
    IN IF hits # {}
       THEN LET i == CHOOSE j \in hits : TRUE
            IN Goto([w EXCEPT !.cache[p] = Append(RemoveAt(c, i), c[i]),
                              !.loc[p].rules = c[i].rules,
                              !.loc[p].hit = TRUE],
                    p, "fix_apply")
       ELSE load_terms([w EXCEPT !.loc[p].hit = FALSE], p, "compile")

\* lines 109-110, then the lru_cache stores the result
Compiled(w, p, rules) ==
    Goto([w EXCEPT !.cache[p] = CachePut(@, CacheKey(w.loc[p].mtime), rules),
                   !.loc[p].rules = rules],
         p, "fix_apply")

compile(w, p) ==
    Compiled(w, p, DropLen(compile_rules(load_entries(w.loc[p].raw.entries))))

(***************************************************************************)
(* fix_terms.                                                              *)
(***************************************************************************)
\* lines 115-119
fix_terms(w, p, text) ==
    LET v == [w EXCEPT !.loc[p] = [IdleLoc EXCEPT !.op = "fix_terms", !.text = text,
                                                  !.fresh = w.fs.path = 0]]
    IN IF text = <<>> THEN Finish(v, p, "ok", text, <<>>, NoStr)
       ELSE Goto(Push(v, p, "fix_stat"), p, "ensure")

\* a path.stat() without the except clause of lines 122-125
fix_stat_giving_up(w, p) ==
    IF w.fs.path # 0
    THEN Goto([w EXCEPT !.loc[p].mtime = w.fs.inodes[w.fs.path].mtime,
                        !.loc[p].statData = w.fs.inodes[w.fs.path].data], p, "rules")
    ELSE Raise([w EXCEPT !.loc[p].gone = TRUE], p, "FileNotFoundError")

\* lines 120-124: path.stat(), and on FileNotFoundError _ensure_terms_file again
fix_stat(w, p) ==
    IF w.fs.path # 0
    THEN Goto([w EXCEPT !.loc[p].mtime = w.fs.inodes[w.fs.path].mtime,
                        !.loc[p].statData = w.fs.inodes[w.fs.path].data], p, "rules")
    ELSE Goto(Push([w EXCEPT !.loc[p].gone = TRUE], p, "fix_stat2"), p, "ensure")

\* line 125: the second path.stat() is outside the try
fix_stat2(w, p) ==
    IF w.fs.path # 0
    THEN Goto([w EXCEPT !.loc[p].mtime = w.fs.inodes[w.fs.path].mtime,
                        !.loc[p].statData = w.fs.inodes[w.fs.path].data], p, "rules")
    ELSE Raise(w, p, "FileNotFoundError")

\* lines 129-139
fix_apply(w, p) ==
    LET rules == w.loc[p].rules
    IN Finish(w, p, "ok", FixParts(rules, w.loc[p].text), rules, NoStr)

(***************************************************************************)
(* add_term.                                                               *)
(***************************************************************************)
RECURSIVE StripAll(_)
StripAll(vs) ==
    IF vs = <<>> THEN <<>>
    ELSE LET v == strip(Head(vs))
         IN (IF v = <<>> THEN <<>> ELSE <<v>>) \o StripAll(Tail(vs))

\* a key resolution that never reuses an existing key
key_as_given(terms, correct) == correct

\* line 158: the first key equal to `correct` under casefold, else `correct`
canonical_key(terms, correct) ==
    LET same == {i \in DOMAIN terms : casefold(terms[i].k) = casefold(correct)}
    IN IF same = {} THEN correct
       ELSE terms[CHOOSE i \in same : \A j \in same : i <= j].k

\* terms.get(key, [])
Get(terms, key) ==
    LET at == {i \in DOMAIN terms : terms[i].k = key}
    IN IF at = {} THEN <<>> ELSE terms[CHOOSE i \in at : TRUE].v

\* an assignment that forgets the other keys
Set_alone(terms, key, value) == <<[k |-> key, v |-> value]>>

\* terms[key] = value: in place, or appended for a new key
Set(terms, key, value) ==
    IF \E i \in DOMAIN terms : terms[i].k = key
    THEN [i \in DOMAIN terms |-> IF terms[i].k = key THEN [k |-> key, v |-> value]
                                  ELSE terms[i]]
    ELSE Append(terms, [k |-> key, v |-> value])

RECURSIVE Without(_, _)
Without(vs, key) ==
    IF vs = <<>> THEN <<>>
    ELSE (IF casefold(Head(vs)) # casefold(key) THEN <<Head(vs)>> ELSE <<>>)
             \o Without(Tail(vs), key)

\* a merge that keeps the stored variants and drops the given ones
merge_existing_only(existing, variants, key) ==
    Without(dedup_preserve_order(existing), key)

\* a merge that appends the given variants without the dedup of line 161
merge_appending(existing, variants, key) == Without(existing \o variants, key)

\* a merge that puts the given variants before the stored ones
merge_new_first(existing, variants, key) ==
    Without(dedup_preserve_order(variants \o existing), key)

\* lines 161-162
merge(existing, variants, key) ==
    Without(dedup_preserve_order(existing \o variants), key)

\* an add_term without the validation of lines 148-149
add_term_unvalidated(w, p, correct, wrong_variants) ==
    load_terms([w EXCEPT !.loc[p] = [IdleLoc EXCEPT !.op = "add_term",
                                                    !.correct = correct,
                                                    !.variants = wrong_variants,
                                                    !.fresh = w.fs.path = 0]],
               p, "add_merge")

\* lines 147-155
add_term(w, p, correct, wrong_variants) ==
    LET c == strip(correct)
        v == [w EXCEPT !.loc[p] = [IdleLoc EXCEPT !.op = "add_term", !.correct = correct,
                                                  !.variants = wrong_variants,
                                                  !.fresh = w.fs.path = 0]]
    IN IF c = <<>> THEN Raise(v, p, "ValueError: correct is empty")
       ELSE load_terms(v, p, "add_merge")

\* lines 158-165, up to the call of _atomic_write_json
Merged(w, p, terms, key) ==
    Goto(Push([w EXCEPT !.loc[p].data =
                   Content(dumps(Set(terms, key,
                                     merge(Get(terms, key),
                                           StripAll(w.loc[p].variants), key))),
                           w.loc[p].raw.origin, w.loc[p].raw.touched \cup {key})],
              p, "add_done"),
         p, "write_mkdir")

MergeInto(w, p, terms) == Merged(w, p, terms, canonical_key(terms, strip(w.loc[p].correct)))

add_merge(w, p) == MergeInto(w, p, load_entries(w.loc[p].raw.entries))

\* line 166
add_done(w, p) ==
    LET terms == load_entries(w.loc[p].raw.entries)
    IN Finish(w, p, "ok", NoStr, <<>>, canonical_key(terms, strip(w.loc[p].correct)))

(***************************************************************************)
(* Running a call.  A step is one system call together with the local      *)
(* computation that follows it, up to the next system call.                *)
(***************************************************************************)
LocalLabels == {"rules", "compile", "fix_apply", "add_merge", "add_done"}

LocalStep(w, p) ==
    CASE w.pc[p] = "rules" -> compiled_rules_for(w, p)
      [] w.pc[p] = "compile" -> compile(w, p)
      [] w.pc[p] = "fix_apply" -> fix_apply(w, p)
      [] w.pc[p] = "add_merge" -> add_merge(w, p)
      [] w.pc[p] = "add_done" -> add_done(w, p)

RECURSIVE RunLocal(_, _)
RunLocal(w, p) == IF w.pc[p] \in LocalLabels THEN RunLocal(LocalStep(w, p), p) ELSE w

SysStep(w, p) ==
    CASE w.pc[p] = "ensure" -> ensure_terms_file(w, p)
      [] w.pc[p] = "write_mkdir" -> write_mkdir(w, p)
      [] w.pc[p] = "write_open" -> write_open(w, p)
      [] w.pc[p] = "write_data" -> write_data(w, p)
      [] w.pc[p] = "write_replace" -> write_replace(w, p)
      [] w.pc[p] = "load_read" -> load_read(w, p)
      [] w.pc[p] = "fix_stat" -> fix_stat(w, p)
      [] w.pc[p] = "fix_stat2" -> fix_stat2(w, p)

\* the whole call, with no other process or external change in between
RECURSIVE RunCall(_, _)
RunCall(w, p) ==
    IF w.pc[p] = "idle" THEN w
    ELSE IF w.pc[p] \in LocalLabels THEN RunCall(LocalStep(w, p), p)
    ELSE RunCall(SysStep(w, p), p)

(***************************************************************************)
(* Inputs.                                                                 *)
(***************************************************************************)
MaxTextLen == 2

MaxWrites == 2

TextChars == {"a", "B", "<", ">"}

Cloudcode == <<"C","l","o","u","d","c","o","d","e">>

ClaudeCode == <<"C","l","a","u","d","e"," ","C","o","d","e">>

\* the text of test_fix_terms_does_not_touch_html_attributes
HtmlText ==
    <<"<","a"," ","h","r","e","f","=","\"","h","t","t","p","s",":","/","/",
      "e","x","a","m","p","l","e",".","c","o","m","/",
      "C","l","o","u","d","c","o","d","e","\"",">">>
        \o Cloudcode \o <<"<","/","a",">">>

SpecialTexts ==
    {Cloudcode, HtmlText, <<"<","a",">","a"," ","<","B",">">>, <<"<",">","a",">">>,
     <<"a","b">>, <<"a"," ","b"," ","a">>, <<"<","a",">">>, <<"a","<","B",">">>,
     <<"<","a"," ","B",">","B">>, <<"b"," ","a">>}

\* the texts of the specification that explores fix_terms
Texts == UNION {[1..n -> TextChars] : n \in 0..MaxTextLen} \cup SpecialTexts

\* the texts of the specification that explores sequences of calls
ApiTexts == {<<>>, <<"a">>, <<"A","B">>, Cloudcode, <<"<","a",">","a"," ","<","B",">">>}

\* the (correct, wrong_variants) of the add_term calls
AddArgs ==
    {<<<<" ">>, <<<<"a">>>>>>,
     <<<<"a","b">>, <<<<"a">>>>>>,
     <<<<"b">>, <<<<"a","b">>>>>>,
     <<<<" ","B">>, <<<<" ","a"," ">>, <<>>, <<"A","B">>>>>>,
     <<<<"a">>, <<<<"A">>, <<"b"," ","a">>>>>>,
     <<<<"w","i","s","p","r"," ","f","l","o","w">>, <<<<"a">>, <<"A">>>>>>}

\* a file another program left: an object whose keys are in no order and
\* collide under casefold, with a value that is not a list of strings
OddFile ==
    Content(<<[k |-> <<"b">>, v |-> <<<<"a">>, <<"A">>>>, ok |-> TRUE],
              [k |-> <<"B">>, v |-> <<>>, ok |-> FALSE],
              [k |-> <<"a","b">>, v |-> <<<<"b">>>>, ok |-> TRUE]>>,
            "external", {})

ExternalFiles == {NotObject, OddFile}

\* the file _ensure_terms_file creates
DefaultFile == Content(dumps(DEFAULT_TERMS), "defaults", {})

NoFiles == [dir |-> FALSE, path |-> 0, tmp |-> 0, inodes |-> <<>>]

FileWith(data) ==
    [dir |-> TRUE, path |-> 1, tmp |-> 0,
     inodes |-> <<[data |-> data, stage |-> "full", mtime |-> 0]>>]

(***************************************************************************)
(* The calls of one process, each run from start to end: a single-process  *)
(* client of the library, with edits of the file between its calls.  The   *)
(* process starts with an empty cache, at a location where there is no     *)
(* file yet or a file from an earlier run.                                 *)
(***************************************************************************)
InitWith(files) ==
    /\ fs \in files
    /\ clock = 0
    /\ cache = [p \in Procs |-> <<>>]
    /\ pc = [p \in Procs |-> "idle"]
    /\ loc = [p \in Procs |-> IdleLoc]
    /\ last = [p \in Procs |-> NoCall]
    /\ actor = 0

Init == InitWith({NoFiles, FileWith(DefaultFile), FileWith(OddFile)})

FixTerms(p, text) ==
    /\ pc[p] = "idle"
    /\ fs.path # 0 \/ clock < 2 * MaxWrites
    /\ SetWorld(RunCall(fix_terms(World, p, text), p), p)

AddTerm(p, correct, wrong_variants) ==
    /\ pc[p] = "idle"
    /\ clock < 2 * MaxWrites
    /\ SetWorld(RunCall(add_term(World, p, correct, wrong_variants), p), p)

\* a step of the environment: no call of a process is the last thing that happened
Environment(w) ==
    SetWorld([w EXCEPT !.last = [p \in Procs |-> [NoCall EXCEPT !.failed = w.last[p].failed]]],
             0)

\* another program saves the file: it creates it, then writes it
ExternalEdit(data) ==
    /\ clock < 2 * MaxWrites
    /\ \A p \in Procs : pc[p] = "idle"
    /\ Environment([World EXCEPT
           !.fs.dir = TRUE,
           !.fs.path = FreshInode(World),
           !.fs.inodes = [j \in DOMAIN @ \cup {FreshInode(World)} |->
                             IF j = FreshInode(World)
                             THEN [data |-> data, stage |-> "full", mtime |-> clock + 2]
                             ELSE @[j]],
           !.clock = @ + 2])

\* another program removes the file
ExternalDelete ==
    /\ fs.path # 0
    /\ Environment([World EXCEPT !.fs.path = 0])

Next ==
    \/ \E text \in ApiTexts \cup {last[1].out} : FixTerms(1, text)
    \/ \E args \in AddArgs : AddTerm(1, args[1], args[2])
    \/ \E data \in ExternalFiles : ExternalEdit(data)
    \/ ExternalDelete

Spec == Init /\ [][Next]_vars

(***************************************************************************)
(* fix_terms alone, over every short text of TextChars and the texts of    *)
(* the tests, with each of the initial dictionaries.                       *)
(***************************************************************************)
NextText == \E text \in Texts \cup {last[1].out} : FixTerms(1, text)

\* a dictionary in which the canonical term of one entry is a variant of another
ChainFile ==
    Content(<<[k |-> <<"a">>, v |-> <<<<"b"," ","a">>>>, ok |-> TRUE],
              [k |-> <<"a","b">>, v |-> <<<<"a">>>>, ok |-> TRUE]>>,
            "external", {})

\* a dictionary with a blank key, untrimmed and empty variants, variants that
\* differ from the key or from each other in case only, and a value that is
\* a list but not of strings only (["B", 5])
RoughFile ==
    Content(<<[k |-> <<" ">>, v |-> <<<<"a">>>>, ok |-> TRUE],
              [k |-> <<"B">>,
               v |-> <<<<" ","a"," ">>, <<>>, <<"A">>, <<"b">>, <<"a">>>>, ok |-> TRUE],
              [k |-> <<"a","b">>, v |-> <<<<"B">>>>, ok |-> FALSE],
              [k |-> <<"a">>, v |-> <<<<" ">>>>, ok |-> TRUE]>>,
            "external", {})

InitText ==
    InitWith({NoFiles, FileWith(DefaultFile), FileWith(OddFile), FileWith(ChainFile),
              FileWith(RoughFile)})

SpecText == InitText /\ [][NextText]_vars

(***************************************************************************)
(* Two processes that share the dictionary file, a system call a step.     *)
(* Each has its own lru_cache; the file system is what they share.         *)
(***************************************************************************)
ConcTexts == {<<"a">>}

ConcAddArgs == {<<<<"a","b">>, <<<<"a">>>>>>, <<<<"b">>, <<<<"a","b">>>>>>}

InitConc == InitWith({NoFiles, FileWith(DefaultFile)})

\* time passes between the calls: every call starts at a later clock value
Later(w) == [w EXCEPT !.clock = @ + 1]

StartFix(p, text) ==
    /\ pc[p] = "idle"
    /\ clock < 2 * MaxWrites
    /\ SetWorld(RunLocal(fix_terms(Later(World), p, text), p), p)

StartAdd(p, correct, wrong_variants) ==
    /\ pc[p] = "idle"
    /\ clock < 2 * MaxWrites
    /\ SetWorld(RunLocal(add_term(Later(World), p, correct, wrong_variants), p), p)

Ensure(p) == pc[p] = "ensure" /\ SetWorld(RunLocal(ensure_terms_file(World, p), p), p)

Mkdir(p) == pc[p] = "write_mkdir" /\ SetWorld(RunLocal(write_mkdir(World, p), p), p)

Open(p) == pc[p] = "write_open" /\ SetWorld(RunLocal(write_open(World, p), p), p)

Write(p) == pc[p] = "write_data" /\ SetWorld(RunLocal(write_data(World, p), p), p)

Replace(p) == pc[p] = "write_replace" /\ SetWorld(RunLocal(write_replace(World, p), p), p)

Read(p) == pc[p] = "load_read" /\ SetWorld(RunLocal(load_read(World, p), p), p)

Stat(p) == pc[p] = "fix_stat" /\ SetWorld(RunLocal(fix_stat(World, p), p), p)

StatAgain(p) == pc[p] = "fix_stat2" /\ SetWorld(RunLocal(fix_stat2(World, p), p), p)

\* another program removes the file while calls are under way
Removed(w) ==
    [Later(w) EXCEPT
        !.fs.path = 0,
        !.loc = [p \in Procs |->
                   IF w.pc[p] = "idle" THEN @[p]
                   ELSE [@[p] EXCEPT !.dels = IF @ < 2 THEN @ + 1 ELSE @]]]

Delete ==
    /\ fs.path # 0
    /\ clock < 2 * MaxWrites
    /\ Environment(Removed(World))

NextConc ==
    \/ \E p \in Procs, text \in ConcTexts : StartFix(p, text)
    \/ \E p \in Procs, args \in ConcAddArgs : StartAdd(p, args[1], args[2])
    \/ \E p \in Procs : Ensure(p)
    \/ \E p \in Procs : Mkdir(p)
    \/ \E p \in Procs : Open(p)
    \/ \E p \in Procs : Write(p)
    \/ \E p \in Procs : Replace(p)
    \/ \E p \in Procs : Read(p)
    \/ \E p \in Procs : Stat(p)
    \/ \E p \in Procs : StatAgain(p)
    \/ Delete

SpecConc == InitConc /\ [][NextConc]_vars

(***************************************************************************)
(* One process in fix_terms, a system call a step, and another program     *)
(* that removes the dictionary file at any point of the call.              *)
(***************************************************************************)
RetryTexts == {<<"a">>, Cloudcode}

InitRetry == InitWith({NoFiles, FileWith(DefaultFile), FileWith(OddFile)})

\* the file is removed while the call of p is under way, at most twice a call
DeleteDuring(p) ==
    /\ fs.path # 0
    /\ pc[p] # "idle" /\ loc[p].dels < 2
    /\ Environment(Removed(World))

NextRetry ==
    \/ \E text \in RetryTexts : StartFix(1, text)
    \/ Ensure(1)
    \/ Mkdir(1)
    \/ Open(1)
    \/ Write(1)
    \/ Replace(1)
    \/ Stat(1)
    \/ StatAgain(1)
    \/ Read(1)
    \/ DeleteDuring(1)

SpecRetry == InitRetry /\ [][NextRetry]_vars

(***************************************************************************)
(* What the properties speak of.                                           *)
(***************************************************************************)
CurFile == fs.inodes[fs.path]

\* the file at the dictionary path holds one complete JSON object
Readable == fs.path # 0 /\ CurFile.stage = "full" /\ CurFile.data.kind = "object"

\* process p has just returned from (or raised in) the call last[p] describes
Completed(p) == actor = p /\ pc[p] = "idle" /\ last[p].op # "none"

\* this step is such a return
Completes(p) == actor' = p /\ pc'[p] = "idle" /\ last'[p].op # "none"

RulesOfFile(data) == DropLen(compile_rules(load_entries(data.entries)))

FormatError == "ValueError: not an object"

ValidationError == "ValueError: correct is empty"

NoCaseDuplicates(vs) ==
    \A i, j \in DOMAIN vs : i # j => casefold(vs[i]) # casefold(vs[j])

KeysUnique(entries) ==
    \A i, j \in DOMAIN entries : i # j => casefold(entries[i].k) # casefold(entries[j].k)

KeysOf(entries) == {entries[i].k : i \in DOMAIN entries}

(***************************************************************************)
(* C1.  fix_terms is idempotent: a fix_terms call whose text is what the   *)
(* fix_terms call just before it returned, with the dictionary unchanged   *)
(* in between, returns that text unchanged.                                *)
(***************************************************************************)
C1_Idempotent ==
    (Completed(1) /\ last[1].op = "fix_terms" /\ last[1].chained)
        => last[1].out = last[1].text

(***************************************************************************)
(* C2.  Cache coherence: every fix_terms call reads the file's version     *)
(* afresh and applies the rules compiled from the dictionary as it is at   *)
(* that call, also when rules of an earlier version are in the cache.      *)
(***************************************************************************)
C2_CacheCoherence ==
    (Completed(1) /\ last[1].op = "fix_terms" /\ last[1].result = "ok"
                  /\ last[1].text # <<>>)
        => /\ Readable
           /\ last[1].mtime = CurFile.mtime
           /\ last[1].rules = RulesOfFile(CurFile.data)

\* a fix_terms call after a mutation that followed an earlier fix_terms call:
\* the rules of the earlier version are still cached, and differ
C2_Witness ==
    /\ Completed(1) /\ last[1].op = "fix_terms" /\ last[1].result = "ok"
    /\ Len(cache[1]) >= 2
    /\ cache[1][1].rules # last[1].rules
    /\ cache[1][Len(cache[1])].rules = last[1].rules

(***************************************************************************)
(* C3.  Dedup invariant: the stored variant list of every canonical term   *)
(* that add_term has merged into holds no two entries equal under casefold *)
(* and no entry equal under casefold to its canonical term.                *)
(***************************************************************************)
C3_DedupInvariant ==
    Readable =>
        \A i \in DOMAIN CurFile.data.entries :
            LET e == CurFile.data.entries[i]
            IN e.k \in CurFile.data.touched =>
                  /\ NoCaseDuplicates(e.v)
                  /\ \A j \in DOMAIN e.v : casefold(e.v[j]) # casefold(e.k)

\* add_term was given a variant equal under casefold to the canonical term, or
\* to a variant already stored, and the term has variants
C3_Witness ==
    /\ Completed(1) /\ last[1].op = "add_term" /\ last[1].result = "ok"
    /\ Readable
    /\ \E i \in DOMAIN CurFile.data.entries :
          LET e == CurFile.data.entries[i]
              given == StripAll(last[1].variants)
          IN /\ e.k = last[1].key
             /\ e.v # <<>>
             /\ \E g \in DOMAIN given :
                   \/ casefold(given[g]) = casefold(e.k)
                   \/ \E j \in DOMAIN e.v :
                         casefold(given[g]) = casefold(e.v[j]) /\ given[g] # e.v[j]

(***************************************************************************)
(* C4.  A reader never observes a half-written dictionary: whatever the    *)
(* interleaving of the writers and readers of two processes, the file at   *)
(* the dictionary location holds a complete serialization of a TermMap a   *)
(* writer meant to persist, never a truncated or partly written one.       *)
(***************************************************************************)
C4_NeverHalfWritten == fs.path # 0 => CurFile.stage = "full"

(***************************************************************************)
(* C5.  Markup protection: fix_terms splits the text at its markup         *)
(* segments ("<", one or more characters other than ">", ">"), returns     *)
(* every markup segment as it was, dictionary literals inside it included, *)
(* applies the rules to plain-text segments only, and joins the segments   *)
(* in their original order.  (A plain segment that itself begins with "<"  *)
(* and ends with ">" is returned as it was too.)                           *)
(***************************************************************************)
IsMarkup(seg) ==
    /\ Len(seg) >= 3
    /\ seg[1] = "<" /\ seg[Len(seg)] = ">"
    /\ \A i \in 2..(Len(seg) - 1) : seg[i] # ">"

HasMarkup(seg) ==
    \E i, j \in DOMAIN seg : j >= i + 2 /\ IsMarkup(SubSeq(seg, i, j))

LooksLikeTag(seg) == seg # <<>> /\ seg[1] = "<" /\ seg[Len(seg)] = ">"

Protected(rules, parts) ==
    [i \in DOMAIN parts |->
        IF i % 2 = 0 \/ LooksLikeTag(parts[i]) THEN parts[i]
        ELSE ApplyRules(rules, parts[i])]

C5_MarkupProtected ==
    (Completed(1) /\ last[1].op = "fix_terms" /\ last[1].result = "ok")
        => LET parts == TAG_SPLIT(last[1].text)
           IN /\ Join(parts) = last[1].text
              /\ \A i \in DOMAIN parts :
                    IF i % 2 = 0 THEN IsMarkup(parts[i]) ELSE ~HasMarkup(parts[i])
              /\ last[1].out = Join(Protected(last[1].rules, parts))

\* a markup segment in which a rule matches came back as it was, next to a
\* plain segment that was corrected
C5_Witness ==
    /\ Completed(1) /\ last[1].op = "fix_terms" /\ last[1].result = "ok"
    /\ \E i, j \in DOMAIN TAG_SPLIT(last[1].text) :
          LET parts == TAG_SPLIT(last[1].text)
          IN /\ i % 2 = 0
             /\ ApplyRules(last[1].rules, parts[i]) # parts[i]
             /\ j % 2 = 1
             /\ ApplyRules(last[1].rules, parts[j]) # parts[j]
             /\ last[1].out = Join(Protected(last[1].rules, parts))
             /\ last[1].out # last[1].text

(***************************************************************************)
(* C6.  Round trip via mutation, as claimed: after add_term(correct,       *)
(* variants) returned "ok", fix_terms of a text that is one of the given   *)
(* variants (trimmed, any casing) returns the canonical term.              *)
(***************************************************************************)
IsGivenVariant(text, variants) ==
    \E i \in DOMAIN StripAll(variants) : casefold(StripAll(variants)[i]) = casefold(text)

VariantAfterAdd ==
    /\ Completed(1) /\ last[1].op = "fix_terms" /\ last[1].result = "ok"
    /\ last[1].afterAdd
    /\ IsGivenVariant(last[1].text, last[1].prevVariants)

MatchesIn(lit, text) == \E i \in DOMAIN text : MatchAt(lit, text, i)

Alone(rules, text, key) ==
    /\ \A i \in DOMAIN rules : MatchesIn(rules[i].lit, text) => rules[i].repl = key
    /\ \A i \in DOMAIN rules :
          MatchesIn(rules[i].lit, key)
              => casefold(rules[i].lit) = casefold(key) /\ rules[i].repl = key

WordText(text) ==
    /\ text # <<>>
    /\ IsWordChar(text[1]) /\ IsWordChar(text[Len(text)])
    /\ TAG_SPLIT(text) = <<text>>

HoldsDefaults ==
    /\ Readable
    /\ KeysOf(load_entries(CurFile.data.entries)) = KeysOf(DEFAULT_TERMS)
    /\ \A i \in DOMAIN DEFAULT_TERMS :
          Get(load_entries(CurFile.data.entries), DEFAULT_TERMS[i].k) = DEFAULT_TERMS[i].v
    /\ Len(CurFile.data.entries) = Len(DEFAULT_TERMS)

C7_Bootstrap ==
    (Completed(1) /\ last[1].op = "fix_terms" /\ last[1].fresh)
        => /\ HoldsDefaults
           /\ last[1].text = Cloudcode => last[1].out = ClaudeCode

(***************************************************************************)
(* C7, amended.  A fix_terms call with a non-empty text at a location with *)
(* no dictionary (the parent directory may be missing too) returns         *)
(* normally, leaves a file holding the default TermMap there and           *)
(* normalizes with the defaults: fix_terms("Cloudcode") is "Claude Code".  *)
(* fix_terms("") returns "" and creates nothing.                           *)
(***************************************************************************)
C7_BootstrapNonEmpty ==
    (Completed(1) /\ last[1].op = "fix_terms" /\ last[1].fresh)
        => IF last[1].text = <<>>
           THEN last[1].result = "ok" /\ last[1].out = <<>> /\ fs.path = 0
           ELSE /\ last[1].result = "ok"
                /\ HoldsDefaults
                /\ fs.dir
                /\ last[1].rules = DropLen(compile_rules(dumps(DEFAULT_TERMS)))
                /\ last[1].text = Cloudcode => last[1].out = ClaudeCode

C7_Witness ==
    /\ Completed(1) /\ last[1].op = "fix_terms" /\ last[1].fresh
    /\ last[1].text = Cloudcode /\ last[1].out = ClaudeCode
    /\ HoldsDefaults

(***************************************************************************)
(* C8.  Canonical keys stay unique under casefold: a dictionary that grew  *)
(* from the defaults by add_term calls has no two keys equal under         *)
(* casefold, and an add_term whose `correct` equals an existing key under  *)
(* casefold merges into that key as it is spelled and adds no key.         *)
(***************************************************************************)
FromDefaults == Readable /\ CurFile.data.origin = "defaults"

KeysStayUnique == FromDefaults => KeysUnique(CurFile.data.entries)

MergesIntoExisting ==
    (Completes(1) /\ last'[1].op = "add_term" /\ last'[1].result = "ok" /\ FromDefaults)
        => LET before == KeysOf(CurFile.data.entries)
               same == {k \in before : casefold(k) = casefold(strip(last'[1].correct))}
           IN same # {} => /\ last'[1].key \in same
                           /\ FromDefaults'
                           /\ KeysOf(CurFile'.data.entries) = before

C8_KeysUnique == KeysStayUnique /\ [][KeysStayUnique' /\ MergesIntoExisting]_vars

\* add_term merged into a key that is spelled differently from its `correct`
C8_Witness ==
    /\ Completed(1) /\ last[1].op = "add_term" /\ last[1].result = "ok"
    /\ FromDefaults
    /\ last[1].key # strip(last[1].correct)
    /\ casefold(last[1].key) = casefold(strip(last[1].correct))
    /\ last[1].key \in KeysOf(CurFile.data.entries)

(***************************************************************************)
(* C9.  add_term with a `correct` that is empty after trimming raises the  *)
(* validation error and touches nothing: no file is created, read or       *)
(* written, and the cache stays as it was.                                 *)
(***************************************************************************)
EmptyCorrectRejected ==
    (Completes(1) /\ last'[1].op = "add_term" /\ strip(last'[1].correct) = <<>>)
        => /\ last'[1].result = ValidationError
           /\ fs' = fs /\ clock' = clock /\ cache' = cache

C9_EmptyCorrect == [][EmptyCorrectRejected]_vars

\* the call was made where there is no file, and there is none after it
C9_Witness ==
    /\ Completed(1) /\ last[1].op = "add_term" /\ strip(last[1].correct) = <<>>
    /\ last[1].result = ValidationError
    /\ last[1].fresh /\ fs.path = 0

(***************************************************************************)
(* C10.  When the file exists and holds a JSON value that is not an        *)
(* object, fix_terms of a non-empty text and add_term (with a non-empty    *)
(* `correct`) raise the format error, leave the file as it is and cache    *)
(* nothing; a call made when the file holds an object again succeeds.      *)
(***************************************************************************)
Broken == fs.path # 0 /\ CurFile.stage = "full" /\ CurFile.data.kind # "object"

ProperCall(call) ==
    \/ call.op = "fix_terms" /\ call.text # <<>>
    \/ call.op = "add_term" /\ strip(call.correct) # <<>>

FormatErrorPropagated ==
    (Completes(1) /\ ProperCall(last'[1]))
        => /\ Broken => /\ last'[1].result = FormatError
                        /\ fs' = fs /\ cache' = cache
           /\ Readable => last'[1].result = "ok"

C10_FormatError == [][FormatErrorPropagated]_vars

\* a call succeeded after an earlier one had raised the format error
C10_Witness ==
    /\ Completed(1) /\ last[1].op = "fix_terms" /\ last[1].text # <<>>
    /\ last[1].failed /\ last[1].result = "ok"
    /\ ~last[1].hit

(***************************************************************************)
(* C11.  add_term is idempotent on the store, as claimed: whatever the     *)
(* dictionary, an add_term call that repeats the add_term call just before *)
(* it returns "ok" and leaves the dictionary as the first call left it.    *)
(***************************************************************************)
RepeatsAdd ==
    /\ last[1].op = "add_term" /\ last[1].result = "ok"
    /\ Completes(1) /\ last'[1].op = "add_term"
    /\ last'[1].correct = last[1].correct
    /\ last'[1].variants = last[1].variants

SameDictionary ==
    /\ last'[1].result = "ok"
    /\ Readable /\ Readable'
    /\ CurFile'.data.entries = CurFile.data.entries

C11_AddTwice == [][RepeatsAdd => SameDictionary]_vars

(***************************************************************************)
(* C11, amended.  For a dictionary whose keys are unique under casefold    *)
(* and a `correct` that is non-empty after trimming, an add_term call that *)
(* repeats the add_term call just before it returns "ok" and leaves the    *)
(* dictionary as the first call left it.                                   *)
(***************************************************************************)
C11_AddTwiceUniqueKeys ==
    [][(RepeatsAdd /\ Readable /\ KeysUnique(CurFile.data.entries)) => SameDictionary]_vars

\* the second of two equal add_term calls that gave variants has returned
C11_Witness ==
    /\ Completed(1) /\ last[1].op = "add_term" /\ last[1].result = "ok"
    /\ last[1].afterAdd
    /\ last[1].prevKey = last[1].key
    /\ last[1].prevVariants = last[1].variants
    /\ StripAll(last[1].variants) # <<>>
    /\ Readable /\ KeysUnique(CurFile.data.entries)
    /\ Get(load_entries(CurFile.data.entries), last[1].key) # <<>>

(***************************************************************************)
(* C12.  Lost update: an add_term that returns "ok" leaves the dictionary  *)
(* it loaded with its own change merged in.  So when the change of the     *)
(* other writer was in the dictionary it loaded (the calls ran one after   *)
(* the other), both changes are present; and when both writers loaded the  *)
(* dictionary from before the other's change, the replace of the second    *)
(* discards the change of the first, although both returned "ok".          *)
(***************************************************************************)
OkAdd(call) == call.op = "add_term" /\ call.result = "ok"

\* the variants the call gave are stored under its key
Present(call, data) ==
    /\ data.kind = "object"
    /\ \A i \in DOMAIN StripAll(call.variants) :
          LET v == StripAll(call.variants)[i]
              stored == Get(load_entries(data.entries), call.key)
          IN \/ casefold(v) = casefold(call.key)
             \/ \E j \in DOMAIN stored : casefold(stored[j]) = casefold(v)

SecondWriter(p, q) ==
    /\ p # q
    /\ Completes(p) /\ OkAdd(last'[p]) /\ OkAdd(last[q])
    /\ pc[p] = "write_replace"
    /\ Readable' /\ CurFile'.data = loc[p].data

C12_LostUpdate ==
    [][\A p, q \in Procs :
          SecondWriter(p, q) =>
             /\ Present(last'[p], CurFile'.data)
             /\ Present(last[q], last'[p].loaded) => Present(last[q], CurFile'.data)
             /\ (~Present(last[q], last'[p].loaded) /\ last'[p].key # last[q].key)
                   => ~Present(last[q], CurFile'.data)]_vars

\* both calls have returned "ok", both loaded the same dictionary, and the
\* change of one of them is not in the file
C12_Witness ==
    /\ OkAdd(last[1]) /\ OkAdd(last[2])
    /\ last[1].loaded = last[2].loaded
    /\ last[1].key # last[2].key
    /\ Readable
    /\ \E p, q \in Procs :
          /\ p # q /\ actor = p
          /\ Present(last[p], CurFile.data)
          /\ ~Present(last[q], CurFile.data)
          /\ ~Present(last[q], last[q].loaded)

(***************************************************************************)
(* C13.  Longest-first overlap resolution, as claimed: once a longer       *)
(* rule has replaced a span, no shorter rule substitutes inside the text   *)
(* that was replaced.  Stated for a text that is, as a whole, the first    *)
(* match: no shorter rule after it changes anything.                       *)
(***************************************************************************)
FixedText(call) == call.op = "fix_terms" /\ call.result = "ok" /\ call.text # <<>>

\* rule i is the first rule that matches in the text, and it matches all of it
WholeMatch(rules, text, i) ==
    /\ MatchAt(rules[i].lit, text, 1) /\ Len(rules[i].lit) = Len(text)
    /\ \A k \in 1..(i - 1) : ~MatchesIn(rules[k].lit, text)

\* the text when rule j is about to be applied
TextBefore(rules, j, text) == ApplyRules(SubSeq(rules, 1, j - 1), text)

C13_NoShorterInside ==
    (Completed(1) /\ FixedText(last[1]) /\ WordText(last[1].text))
        => \A i, j \in DOMAIN last[1].rules :
              (/\ WholeMatch(last[1].rules, last[1].text, i)
               /\ j > i /\ Len(last[1].rules[j].lit) < Len(last[1].rules[i].lit))
                  => sub(last[1].rules[j], TextBefore(last[1].rules, j, last[1].text))
                        = TextBefore(last[1].rules, j, last[1].text)

(***************************************************************************)
(* C13, amended.  The rules are applied in non-increasing literal length,  *)
(* each to the segment as the rules before it left it.  Once a longer rule *)
(* has replaced a span, the original text of the span is no longer there   *)
(* for a shorter rule: the shorter rules see the replacement, in which     *)
(* they can still match.  Stated for a text that is, as a whole, the first *)
(* match: the result is what the rules after it make of the replacement.   *)
(***************************************************************************)
LongestFirst(rules) ==
    \A i, j \in DOMAIN rules : i < j => Len(rules[i].lit) >= Len(rules[j].lit)

C13_LongestFirst ==
    (Completed(1) /\ FixedText(last[1]))
        => /\ LongestFirst(last[1].rules)
           /\ WordText(last[1].text) =>
                 \A i \in DOMAIN last[1].rules :
                    WholeMatch(last[1].rules, last[1].text, i)
                       => last[1].out =
                            ApplyRules(SubSeq(last[1].rules, i + 1, Len(last[1].rules)),
                                       last[1].rules[i].repl)

\* a shorter rule matches inside the original text; the longer rule took the
\* whole text first, and the result is not what the shorter rules alone give
C13_Witness ==
    /\ Completed(1) /\ FixedText(last[1]) /\ WordText(last[1].text)
    /\ \E i, j \in DOMAIN last[1].rules :
          /\ WholeMatch(last[1].rules, last[1].text, i)
          /\ j > i /\ Len(last[1].rules[j].lit) < Len(last[1].rules[i].lit)
          /\ MatchesIn(last[1].rules[j].lit, last[1].text)
          /\ last[1].out # ApplyRules(SubSeq(last[1].rules, i + 1, Len(last[1].rules)),
                                      last[1].text)

(***************************************************************************)
(* C14.  _compile_rules yields exactly one rule per surviving variant: for *)
(* every canonical term that is not blank, the term itself and then its    *)
(* variants, without those equal under casefold to an earlier one,         *)
(* trimmed, without the empty ones, each with the canonical term as        *)
(* replacement; and the rules are in non-increasing length of the trimmed  *)
(* literal, rules of equal length in dictionary order.                     *)
(***************************************************************************)
SurvivorsOf(e) ==
    LET all == <<e.k>> \o e.v
        Survives(i) ==
            /\ \A j \in 1..(i - 1) : casefold(all[j]) # casefold(all[i])
            /\ strip(all[i]) # <<>>
        at == SelectSeq([i \in DOMAIN all |-> i], Survives)
    IN IF strip(e.k) = <<>> THEN <<>>
       ELSE [n \in DOMAIN at |-> [lit |-> strip(all[at[n]]), repl |-> e.k]]

RECURSIVE SurvivorsOfAll(_)
SurvivorsOfAll(terms) ==
    IF terms = <<>> THEN <<>>
    ELSE SurvivorsOf(Head(terms)) \o SurvivorsOfAll(Tail(terms))

\* the rules of length n, then those of length n - 1, ..., each group in the
\* order of `rules`
RECURSIVE ByLength(_, _)
ByLength(rules, n) ==
    IF n = 0 THEN <<>>
    ELSE LET HasLength(r) == Len(r.lit) = n
         IN SelectSeq(rules, HasLength) \o ByLength(rules, n - 1)

LongestLit(rules) ==
    IF rules = <<>> THEN 0
    ELSE CHOOSE n \in {Len(rules[i].lit) : i \in DOMAIN rules} :
            \A i \in DOMAIN rules : Len(rules[i].lit) <= n

Compiles(call) == FixedText(call) /\ ~call.hit /\ call.loaded.kind = "object"

C14_CompileStructure ==
    (Completed(1) /\ Compiles(last[1]))
        => LET survivors == SurvivorsOfAll(load_entries(last[1].loaded.entries))
           IN last[1].rules = ByLength(survivors, LongestLit(survivors))

\* the compiled dictionary had a blank key, an untrimmed variant, an empty
\* one, one dropped as a duplicate under casefold, and two rules of equal
\* length whose dictionary order is not their order by literal
C14_Witness ==
    /\ Completed(1) /\ Compiles(last[1])
    /\ LET terms == load_entries(last[1].loaded.entries)
           rules == last[1].rules
       IN /\ \E i \in DOMAIN terms : strip(terms[i].k) = <<>> /\ terms[i].v # <<>>
          /\ \E i \in DOMAIN terms :
                /\ \E j \in DOMAIN terms[i].v :
                      strip(terms[i].v[j]) \notin {<<>>, terms[i].v[j]}
                /\ \E j \in DOMAIN terms[i].v : strip(terms[i].v[j]) = <<>>
                /\ Len(SurvivorsOf(terms[i])) < Len(terms[i].v)
          /\ \E i, j \in DOMAIN rules :
                /\ i < j /\ Len(rules[i].lit) = Len(rules[j].lit)
                /\ StrLess(rules[j].lit, rules[i].lit)
          /\ \E i \in DOMAIN rules : Len(rules[i].lit) > Len(rules[Len(rules)].lit)

(***************************************************************************)
(* C15.  When the first path.stat() of fix_terms finds the file gone (an   *)
(* external deleter removed it after the existence check), fix_terms runs  *)
(* the existence check again, which writes the defaults, and reads the     *)
(* version once more.  With that one deletion the call returns the text    *)
(* fixed by the defaults; it fails only when the file was removed again,   *)
(* and then with FileNotFoundError.                                        *)
(***************************************************************************)
StatFoundNothing(call) == call.op = "fix_terms" /\ call.gone

C15_RetryOnce ==
    (Completed(1) /\ StatFoundNothing(last[1]))
        => /\ last[1].dels >= 1
           /\ last[1].dels = 1 =>
                 /\ last[1].result = "ok"
                 /\ last[1].out = FixParts(RulesOfFile(DefaultFile), last[1].text)
                 /\ Readable /\ CurFile.data = DefaultFile
           /\ last[1].result # "ok" =>
                 last[1].result = "FileNotFoundError" /\ last[1].dels >= 2

\* the file was removed once, between the existence check and the version
\* read of a call that found a dictionary other than the defaults, and the
\* call returned normally
C15_Witness ==
    /\ Completed(1) /\ StatFoundNothing(last[1])
    /\ last[1].dels = 1 /\ ~last[1].fresh
    /\ last[1].result = "ok" /\ last[1].out # last[1].text

(***************************************************************************)
(* C16.  Permissive read.  In a dictionary that is a JSON object, a key    *)
(* whose value is not a list of strings is loaded with no variants: the    *)
(* load succeeds, the key has its one rule (its trimmed text, replaced by  *)
(* the key), so a text that is the key in another casing and that no other *)
(* rule touches comes back as the key, and every other entry has the rules *)
(* of its own variants.                                                    *)
(***************************************************************************)
HasBadValue(data) == \E i \in DOMAIN data.entries : ~data.entries[i].ok

ReadsBadValue(call) ==
    /\ call.op = "fix_terms" /\ call.text # <<>>
    /\ Readable /\ HasBadValue(CurFile.data)

RulesFor(rules, key) ==
    LET IsFor(r) == r.repl = key
    IN SelectSeq(rules, IsFor)

C16_PermissiveRead ==
    (Completed(1) /\ ReadsBadValue(last[1]))
        => /\ last[1].result = "ok"
           /\ \A i \in DOMAIN CurFile.data.entries :
                 LET e == CurFile.data.entries[i]
                     mine == RulesFor(last[1].rules, e.k)
                     own == SurvivorsOf([k |-> e.k, v |-> e.v])
                 IN IF e.ok THEN mine = ByLength(own, LongestLit(own))
                    ELSE /\ strip(e.k) # <<>> => mine = <<[lit |-> strip(e.k), repl |-> e.k]>>
                         /\ (/\ WordText(last[1].text)
                             /\ casefold(last[1].text) = casefold(e.k)
                             /\ Alone(last[1].rules, last[1].text, e.k))
                                => last[1].out = e.k

\* the value that is not a list of strings held a string; the text was the
\* key in another casing and came back as the key
C16_Witness ==
    /\ Completed(1) /\ ReadsBadValue(last[1]) /\ ~last[1].hit
    /\ \E i \in DOMAIN CurFile.data.entries :
          LET e == CurFile.data.entries[i]
          IN /\ ~e.ok /\ e.v # <<>>
             /\ last[1].text # e.k /\ casefold(last[1].text) = casefold(e.k)
             /\ last[1].out = e.k

(***************************************************************************)
(* C17.  add_term only grows the target entry, as claimed: for a           *)
(* dictionary whose values are all lists of strings, an add_term that      *)
(* returns "ok" leaves the keys other than its target and their variant    *)
(* lists as they were, adds no key but the target, and the target's list   *)
(* is all its previous variants, in their order, except those equal under  *)
(* casefold to the key, followed by the genuinely new variants in the      *)
(* order given.                                                            *)
(***************************************************************************)
WellFormed(data) ==
    /\ data.kind = "object"
    /\ \A i \in DOMAIN data.entries : data.entries[i].ok

AddsTo(call) == OkAdd(call) /\ WellFormed(call.loaded)

\* the previous variants but those equal under casefold to the key
ButKey(previous, key) ==
    LET Other(v) == casefold(v) # casefold(key)
    IN SelectSeq(previous, Other)

\* the previous variants but those equal under casefold to the key or to an
\* earlier previous variant
FirstOfEach(previous, key) ==
    LET Kept(i) ==
            /\ casefold(previous[i]) # casefold(key)
            /\ \A j \in 1..(i - 1) : casefold(previous[j]) # casefold(previous[i])
        at == SelectSeq([i \in DOMAIN previous |-> i], Kept)
    IN [n \in DOMAIN at |-> previous[at[n]]]

\* the given variants, trimmed, that are not empty, not the key, not among
\* the previous variants and not given earlier in the same call
GenuinelyNew(previous, given, key) ==
    LET g == StripAll(given)
        IsNew(i) ==
            /\ casefold(g[i]) # casefold(key)
            /\ \A j \in DOMAIN previous : casefold(previous[j]) # casefold(g[i])
            /\ \A j \in 1..(i - 1) : casefold(g[j]) # casefold(g[i])
        at == SelectSeq([i \in DOMAIN g |-> i], IsNew)
    IN [n \in DOMAIN at |-> g[at[n]]]

\* what the call of p left of the dictionary it loaded, but for the target
OthersUntouched(p) ==
    LET was == load_entries(last[p].loaded.entries)
        now == load_entries(CurFile.data.entries)
    IN /\ KeysOf(now) = KeysOf(was) \cup {last[p].key}
       /\ \A i \in DOMAIN was :
             was[i].k # last[p].key => Get(now, was[i].k) = was[i].v
       /\ \A i, j \in DOMAIN now : now[i].k = now[j].k => i = j

PreviousOf(p) == Get(load_entries(last[p].loaded.entries), last[p].key)

TargetOf(p) == Get(load_entries(CurFile.data.entries), last[p].key)

C17_KeepsAllPrevious ==
    \A p \in Procs :
       (Completed(p) /\ AddsTo(last[p]))
          => /\ Readable
             /\ OthersUntouched(p)
             /\ TargetOf(p) = ButKey(PreviousOf(p), last[p].key)
                                 \o GenuinelyNew(PreviousOf(p), last[p].variants, last[p].key)

(***************************************************************************)
(* C17, amended.  The same, but the target's list is its previous variants *)
(* without those equal under casefold to the key or to an earlier one of   *)
(* them (the merge deduplicates the stored variants too), in their order,  *)
(* followed by the genuinely new variants in the order given.              *)
(***************************************************************************)
C17_OnlyGrowsTarget ==
    \A p \in Procs :
       (Completed(p) /\ AddsTo(last[p]))
          => /\ Readable
             /\ OthersUntouched(p)
             /\ TargetOf(p) = FirstOfEach(PreviousOf(p), last[p].key)
                                 \o GenuinelyNew(PreviousOf(p), last[p].variants, last[p].key)

\* the target had two variants equal under casefold, the call gave a new
\* variant twice in two casings, and the dictionary has other terms
C17_Witness ==
    /\ Completed(1) /\ AddsTo(last[1])
    /\ LET new == GenuinelyNew(PreviousOf(1), last[1].variants, last[1].key)
       IN /\ FirstOfEach(PreviousOf(1), last[1].key) # PreviousOf(1)
          /\ FirstOfEach(PreviousOf(1), last[1].key) # <<>>
          /\ new # <<>> /\ Len(new) < Len(StripAll(last[1].variants))
          /\ \E i \in DOMAIN last[1].loaded.entries :
                /\ last[1].loaded.entries[i].k # last[1].key
                /\ last[1].loaded.entries[i].v # <<>>

(***************************************************************************)
(* C18.  _ensure_terms_file never replaces an existing dictionary with the *)
(* defaults: no step takes the dictionary path from a complete dictionary  *)
(* that an add_term has written to the default dictionary.                 *)
(***************************************************************************)
WrittenByAdd == Readable /\ CurFile.data.touched # {}

DefaultsPutInPlace ==
    /\ fs'.path # 0 /\ fs'.path # fs.path
    /\ fs'.inodes[fs'.path].stage = "full"
    /\ fs'.inodes[fs'.path].data = DefaultFile

C18_NeverOverwritten == [][WrittenByAdd => ~DefaultsPutInPlace]_vars

(***************************************************************************)
(* C19.  Cache entries are faithful to their key: whenever fix_terms       *)
(* stores compiled rules in the cache of its process, the rules stored     *)
(* under a version are the rules of the dictionary contents that carried   *)
(* that version, i.e. of the contents the path held when path.stat() read  *)
(* the version.                                                            *)
(***************************************************************************)
StoresRules(p) ==
    /\ pc[p] = "load_read" /\ loc[p].op = "fix_terms"
    /\ actor' = p
    /\ cache'[p] # cache[p]

StoredFaithfully(p) ==
    LET e == cache'[p][Len(cache'[p])]
    IN /\ e.ver = loc[p].mtime
       /\ loc[p].statData.kind = "object"
       /\ e.rules = RulesOfFile(loc[p].statData)

C19_CacheFaithful == [][\A p \in Procs : StoresRules(p) => StoredFaithfully(p)]_vars

====
